---- MODULE Spec2Model ----
(***************************************************************************)
(* Model of src/main.py: the user record store (UserHealthManager), the    *)
(* tongue analysis tool (enhanced_tongue_analysis) and the weather advice  *)
(* tool (weather_constitution_advice).                                     *)
(*                                                                         *)
(* Text is modelled as a sequence of tokens: one token per CJK character   *)
(* (written in pinyin), one token per separator character ("|", ",", " ")  *)
(* and one token per Latin word.  A timestamp (datetime.now().isoformat()) *)
(* is modelled by the clock reading it was formatted from: for the naive   *)
(* datetimes the code produces, comparing the ISO strings orders them as   *)
(* the readings.  uuid.uuid4() is modelled as a fresh number.              *)
(***************************************************************************)
EXTENDS Integers, Sequences, FiniteSets, TLC

VARIABLES
    users,            \* UserHealthManager.users: user id -> user document
    disk,             \* the content of users_health_data.json
    now,              \* the wall clock read by datetime.datetime.now()
    uuids,            \* how many uuid4 values have been drawn
    current_user_id,  \* the module global current_user_id
    api_key,          \* OPENWEATHER_API_KEY is set
    httpLog,          \* the requests the weather provider has received
    cache,            \* the lru_cache of the latest get_weather_cached closure
    last              \* the latest call: its name, arguments and result

vars == <<users, disk, now, uuids, current_user_id, api_key, httpLog, cache, last>>

(***************************************************************************)
(* Bounds of the exploration.                                              *)
(***************************************************************************)
MaxRecords == 3   \* uuid4 values drawn (records appended) in one behaviour
MaxClock == 2     \* readings the clock advances through
MaxDurableRecords == 2  \* records appended in one behaviour of SpecDurable
MaxAnalyses == 2         \* analyses recorded in one behaviour of SpecAnalysis
MaxRequests == 3  \* requests the weather provider receives in one behaviour

UserIds == {"default_user", "u1"}

\* name, age, gender arguments of create_user (the first is the defaults)
Profiles == { <<"", 0, "">>, <<"Ann", 30, "F">> }

(***************************************************************************)
(* TONGUE_DATABASE: its keys and symptoms as token sequences.              *)
(***************************************************************************)
KeyHongDian == <<"she", "tou", "you", "hong", "dian">>             \* 舌頭有紅點
KeyJianCe == <<"she", "jian", "ji", "ce", "bian", "fa", "hong">>   \* 舌尖及側邊發紅
KeyChiHen == <<"she", "tou", "you", "chi", "hen">>                 \* 舌頭有齒痕
KeyGouHen == <<"she", "tou", "you", "gou", "hen">>                 \* 舌頭有溝痕
KeyHuangHou == <<"she", "tai", "huang", "hou">>                    \* 舌苔黃厚
KeyBaiHou == <<"she", "tai", "bai", "hou">>                        \* 舌苔白厚
KeyDanHong == <<"dan", "hong", "se", "she", "qie", "she", "tai", "qian", "bai">>  \* 淡紅色舌且舌苔淺白

KouGan == <<"kou", "gan">>     \* 口乾
FanZao == <<"fan", "zao">>     \* 煩躁
ShiMian == <<"shi", "mian">>   \* 失眠

\* key, 體質 and 症狀 of each entry, in the dict's order
TONGUE_DATABASE ==
    << [key |-> KeyHongDian, tizhi |-> "neire_guosheng",       \* 內熱過盛
        zhengzhuang |-> <<KouGan, FanZao, ShiMian>>],
       [key |-> KeyJianCe, tizhi |-> "ganqi_yujie",            \* 肝氣鬱結
        zhengzhuang |-> << <<"qing", "xu", "bu", "wen">>, <<"xie", "tong">>,
                           <<"yue", "jing", "bu", "tiao">> >>],
       [key |-> KeyChiHen, tizhi |-> "pixu_shizhong",          \* 脾虛濕重
        zhengzhuang |-> << <<"pi", "lao">>, <<"fu", "zhang">>,
                           <<"da", "bian", "tang", "bo">> >>],
       [key |-> KeyGouHen, tizhi |-> "piwei_xuruo",            \* 脾胃虛弱
        zhengzhuang |-> << <<"shi", "yu", "bu", "zhen">>,
                           <<"xiao", "hua", "bu", "liang">>,
                           <<"mian", "se", "wei", "huang">> >>],
       [key |-> KeyHuangHou, tizhi |-> "shire_tizhi",          \* 濕熱體質
        zhengzhuang |-> << <<"kou", "ku">>, <<"xiao", "bian", "huang">>,
                           <<"da", "bian", "nian", "ni">> >>],
       [key |-> KeyBaiHou, tizhi |-> "hanshi_tizhi",           \* 寒濕體質
        zhengzhuang |-> << <<"wei", "han">>, <<"fu", "zhang">>,
                           <<"da", "bian", "tang", "bo">> >>],
       [key |-> KeyDanHong, tizhi |-> "jiankang_shexiang",     \* 健康舌相
        zhengzhuang |-> << <<"wu", "ming", "xian", "bu", "shi">> >>] >>

(***************************************************************************)
(* Generic helpers for Python's built-ins.                                 *)
(***************************************************************************)
\* seq[:limit]
PySliceTo(seq, limit) ==
    IF limit >= 0
    THEN SubSeq(seq, 1, IF limit < Len(seq) THEN limit ELSE Len(seq))
    ELSE SubSeq(seq, 1, IF Len(seq) + limit > 0 THEN Len(seq) + limit ELSE 0)

\* seq[-n:] for n > 0
PyLastN(seq, n) ==
    SubSeq(seq, IF Len(seq) > n THEN Len(seq) - n + 1 ELSE 1, Len(seq))

\* str.find: the position of the first sep in s, 0 when there is none
Find(s, sep) ==
    IF \E i \in 1..Len(s) : s[i] = sep
    THEN CHOOSE i \in 1..Len(s) : s[i] = sep /\ \A j \in 1..(i - 1) : s[j] # sep
    ELSE 0

RECURSIVE Split(_, _)
\* s.split(sep)
Split(s, sep) ==
    IF Find(s, sep) = 0 THEN <<s>>
    ELSE <<SubSeq(s, 1, Find(s, sep) - 1)>>
            \o Split(SubSeq(s, Find(s, sep) + 1, Len(s)), sep)

\* s.strip()
Strip(s) ==
    LET inked == {i \in 1..Len(s) : s[i] # " "}
    IN IF inked = {} THEN <<>>
       ELSE SubSeq(s, CHOOSE i \in inked : \A j \in inked : i <= j,
                      CHOOSE i \in inked : \A j \in inked : i >= j)

\* a in b, for two strings
PyIn(a, b) ==
    \E k \in 0..(Len(b) - Len(a)) : \A m \in 1..Len(a) : b[k + m] = a[m]

\* the position a record takes in a list sorted by date, descending, when it is
\* inserted after the records of the list: behind every record whose date is
\* not smaller (the sort is stable under reverse=True)
InsertPos(sorted, r) ==
    Cardinality({i \in 1..Len(sorted) : sorted[i].date >= r.date}) + 1

RECURSIVE SortedByDateDesc(_)
\* sorted(records, key=lambda x: x["date"], reverse=True)
SortedByDateDesc(records) ==
    IF records = <<>> THEN <<>>
    ELSE LET front == SortedByDateDesc(SubSeq(records, 1, Len(records) - 1))
             r == records[Len(records)]
             p == InsertPos(front, r)
         IN SubSeq(front, 1, p - 1) \o <<r>> \o SubSeq(front, p, Len(front))

(***************************************************************************)
(* The JSON file.                                                          *)
(***************************************************************************)
Absent == [kind |-> "absent", users |-> <<>>]
Corrupt == [kind |-> "corrupt", users |-> <<>>]
\* json.dump(self.users, f): the document holds the whole users map
Document(us) == [kind |-> "doc", users |-> us]

\* what one open(...,"w") + json.dump can do: succeed, fail before the file is
\* opened (it is left as it was), fail after it was truncated
SaveOutcomes == {"ok", "fail_open", "fail_write"}

save_data(d, us, outcome) ==
    CASE outcome = "ok" -> Document(us)
      [] outcome = "fail_open" -> d
      [] OTHER -> Corrupt

\* what load_data can meet: the file read and parsed, or an exception
LoadOutcomes == {"ok", "fail"}

load_data(d, outcome) ==
    IF d.kind = "absent" THEN <<>>
    ELSE IF d.kind = "doc" /\ outcome = "ok" THEN d.users
    ELSE <<>>

(***************************************************************************)
(* UserHealthManager, as functions of the users map.                       *)
(***************************************************************************)
NewUser(profile, t) ==
    [name |-> profile[1], age |-> profile[2], gender |-> profile[3],
     created_at |-> t, tongue_records |-> <<>>, constitution_trends |-> <<>>,
     preferences |-> <<>>]

\* create_user without its "if user_id not in self.users" test
create_user_users_overwriting(us, user_id, profile, t) ==
    [x \in DOMAIN us \cup {user_id} |->
        IF x = user_id THEN NewUser(profile, t) ELSE us[x]]

\* the users map create_user leaves
create_user_users(us, user_id, profile, t) ==
    IF user_id \notin DOMAIN us
    THEN us @@ (user_id :> NewUser(profile, t))
    ELSE us

\* the save_data calls create_user makes, given the outcome of each
create_user_disk(d, us, user_id, profile, t, outcome) ==
    IF user_id \notin DOMAIN us
    THEN save_data(d, create_user_users(us, user_id, profile, t), outcome)
    ELSE d

create_user_ret(us, user_id) == user_id \notin DOMAIN us

\* constitution_trends is a dict: a sequence of <<label, count>> in insertion order
TrendIndex(trends, constitution) ==
    {i \in 1..Len(trends) : trends[i][1] = constitution}

update_constitution_trends(trends, constitution) ==
    IF TrendIndex(trends, constitution) = {}
    THEN Append(trends, <<constitution, 1>>)
    ELSE [i \in 1..Len(trends) |->
            IF trends[i][1] = constitution
            THEN <<constitution, trends[i][2] + 1>> ELSE trends[i]]

NewRecord(record_id, t, tongue_type, constitution, symptoms) ==
    [record_id |-> record_id, date |-> t, tongue_type |-> tongue_type,
     constitution |-> constitution, symptoms |-> symptoms]

\* the users map add_tongue_record leaves
add_tongue_record_users(us, user_id, record) ==
    LET us1 == create_user_users(us, user_id, <<"", 0, "">>, record.date)
    IN [us1 EXCEPT ![user_id] =
          [@ EXCEPT !.tongue_records = Append(@, record),
                    !.constitution_trends =
                        update_constitution_trends(@, record.constitution)]]

\* add_tongue_record saving before it appends
add_tongue_record_disk_early(d, us, user_id, record, outcomes) ==
    LET us1 == create_user_users(us, user_id, <<"", 0, "">>, record.date)
        d1 == create_user_disk(d, us, user_id, <<"", 0, "">>, record.date, outcomes[1])
    IN save_data(d1, us1, outcomes[2])

\* the save_data calls add_tongue_record makes: create_user's when the user is
\* new, then its own
add_tongue_record_disk(d, us, user_id, record, outcomes) ==
    LET d1 == create_user_disk(d, us, user_id, <<"", 0, "">>, record.date, outcomes[1])
    IN save_data(d1, add_tongue_record_users(us, user_id, record), outcomes[2])

get_user_history(us, user_id, limit) ==
    IF user_id \in DOMAIN us
    THEN PySliceTo(SortedByDateDesc(us[user_id].tongue_records), limit)
    ELSE <<>>

RECURSIVE MaxItemLast(_)
\* max with ties going to the last of the largest
MaxItemLast(items) ==
    IF Len(items) = 1 THEN items[1]
    ELSE LET best == MaxItemLast(SubSeq(items, 1, Len(items) - 1))
             x == items[Len(items)]
         IN IF x[2] >= best[2] THEN x ELSE best

RECURSIVE MaxItem(_)
\* max(trends.items(), key=lambda item: item[1]): the first of the largest
MaxItem(items) ==
    IF Len(items) = 1 THEN items[1]
    ELSE LET best == MaxItem(SubSeq(items, 1, Len(items) - 1))
             x == items[Len(items)]
         IN IF x[2] > best[2] THEN x ELSE best

RecentWindow == 5

get_constitution_analysis(us, user_id) ==
    IF user_id \notin DOMAIN us THEN [kind |-> "error"]
    ELSE LET trends == us[user_id].constitution_trends
             records == us[user_id].tongue_records
         IN IF records = <<>> THEN [kind |-> "message"]
            ELSE [kind |-> "analysis",
                  recent_constitution |-> records[Len(records)].constitution,
                  most_common_constitution |->
                      IF trends # <<>> THEN MaxItem(trends)[1] ELSE "unknown",
                  constitution_frequency |-> trends,
                  recent_trend |->
                      [i \in 1..Len(PyLastN(records, RecentWindow)) |->
                          PyLastN(records, RecentWindow)[i].constitution],
                  total_records |-> Len(records)]

(***************************************************************************)
(* The record of the latest call.                                          *)
(***************************************************************************)
NoMsg == [kind |-> "none", example |-> <<>>, listed |-> <<>>, tongue_type |-> <<>>,
          matched |-> <<>>, unmatched |-> <<>>, text |-> "", constitution |-> "",
          blocks |-> <<>>]

\* what the weather provider did with a request
NoWeather == [kind |-> "none", text |-> "", status |-> 0, cod |-> 0,
              message |-> "", humidity |-> 0, temp |-> 0]

NoCall == [op |-> "none", user_id |-> "", profile |-> <<"", 0, "">>,
           input |-> <<>>, ret_ok |-> FALSE, ret_id |-> 0, saves |-> <<>>,
           pending |-> FALSE, msg |-> NoMsg, hit |-> FALSE, weather |-> NoWeather]

\* the memory holds mutations the file does not
Pending == disk # Document(users)

(***************************************************************************)
(* The store's operations as steps.                                        *)
(***************************************************************************)
Init ==
    /\ users = <<>>
    /\ disk = Absent
    /\ now = 0
    /\ uuids = 0
    /\ current_user_id = "default_user"
    /\ api_key = FALSE
    /\ httpLog = <<>>
    /\ cache = <<>>
    /\ last = NoCall

\* time passes between two calls
Tick ==
    /\ now < MaxClock
    /\ now' = now + 1
    /\ last' = [NoCall EXCEPT !.op = "tick"]
    /\ UNCHANGED <<users, disk, uuids, current_user_id, api_key, httpLog, cache>>

\* a new process imports the module: user_manager = UserHealthManager()
ProcessStart(outcome) ==
    /\ users' = load_data(disk, outcome)
    /\ current_user_id' = "default_user"
    /\ cache' = <<>>
    /\ last' = [NoCall EXCEPT !.op = "load_data"]
    /\ UNCHANGED <<disk, now, uuids, api_key, httpLog>>

create_user(user_id, profile, outcome) ==
    /\ users' = create_user_users(users, user_id, profile, now)
    /\ disk' = create_user_disk(disk, users, user_id, profile, now, outcome)
    /\ last' = [NoCall EXCEPT !.op = "create_user", !.user_id = user_id,
                              !.profile = profile,
                              !.ret_ok = create_user_ret(users, user_id),
                              !.saves = IF user_id \notin DOMAIN users
                                        THEN <<outcome>> ELSE <<>>,
                              !.pending = Pending]
    /\ UNCHANGED <<now, uuids, current_user_id, api_key, httpLog, cache>>

add_tongue_record(user_id, tongue_type, constitution, symptoms, outcomes) ==
    /\ LET record == NewRecord(uuids + 1, now, tongue_type, constitution, symptoms)
       IN /\ users' = add_tongue_record_users(users, user_id, record)
          /\ disk' = add_tongue_record_disk(disk, users, user_id, record, outcomes)
          /\ last' = [NoCall EXCEPT !.op = "add_tongue_record", !.user_id = user_id,
                                    !.ret_id = record.record_id,
                                    !.saves = IF user_id \notin DOMAIN users
                                              THEN outcomes ELSE <<outcomes[2]>>,
                                    !.pending = Pending]
    /\ uuids' = uuids + 1
    /\ UNCHANGED <<now, current_user_id, api_key, httpLog, cache>>

\* main(), up to its prompt loop
main(user_id_input, outcome) ==
    LET id == IF user_id_input = "" THEN "default_user" ELSE user_id_input
    IN /\ current_user_id' = id
       /\ users' = create_user_users(users, id, <<"", 0, "">>, now)
       /\ disk' = create_user_disk(disk, users, id, <<"", 0, "">>, now, outcome)
       /\ last' = [NoCall EXCEPT !.op = "main", !.user_id = id,
                                 !.ret_ok = create_user_ret(users, id),
                                 !.saves = IF id \notin DOMAIN users
                                           THEN <<outcome>> ELSE <<>>,
                                 !.pending = Pending]
       /\ UNCHANGED <<now, uuids, api_key, httpLog, cache>>

(***************************************************************************)
(* The store in one process, the file system working: create_user and      *)
(* add_tongue_record called in any order, for any user, at any time.       *)
(***************************************************************************)
\* the arguments add_tongue_record is called with
AddArgs ==
    { <<KeyHongDian, "neire_guosheng", <<KouGan>>>>,
      <<KeyHuangHou, "shire_tizhi", <<>>>> }

Next ==
    \/ Tick
    \/ \E user_id \in UserIds, profile \in Profiles :
          create_user(user_id, profile, "ok")
    \/ /\ uuids < MaxRecords
       /\ \E user_id \in UserIds, a \in AddArgs :
             add_tongue_record(user_id, a[1], a[2], a[3], <<"ok", "ok">>)

Spec == Init /\ [][Next]_vars

(***************************************************************************)
(* The store over several processes, with a file system that can fail.     *)
(***************************************************************************)
NextDurable ==
    \/ \E outcome \in LoadOutcomes : ProcessStart(outcome)
    \/ \E user_id \in UserIds, outcome \in SaveOutcomes :
          create_user(user_id, <<"", 0, "">>, outcome)
    \/ /\ uuids < MaxDurableRecords
       /\ \E user_id \in UserIds, o1 \in SaveOutcomes, o2 \in SaveOutcomes :
             add_tongue_record(user_id, KeyHongDian, "neire_guosheng", <<>>, <<o1, o2>>)
    \/ \E user_id_input \in {"", "u1"}, outcome \in SaveOutcomes :
          main(user_id_input, outcome)

SpecDurable == Init /\ [][NextDurable]_vars

(***************************************************************************)
(* enhanced_tongue_analysis.                                               *)
(***************************************************************************)
None == [key |-> <<>>, tizhi |-> "", zhengzhuang |-> <<>>]

\* list(TONGUE_DATABASE.keys())
available_types == [i \in 1..Len(TONGUE_DATABASE) |-> TONGUE_DATABASE[i].key]

\* input_str in TONGUE_DATABASE
InDatabase(s) == \E i \in 1..Len(TONGUE_DATABASE) : TONGUE_DATABASE[i].key = s

\* a lookup that takes the first entry whose key starts the description
database_get_prefix(tongue_type) ==
    LET hits == {i \in 1..Len(TONGUE_DATABASE) :
                    /\ Len(TONGUE_DATABASE[i].key) <= Len(tongue_type)
                    /\ SubSeq(tongue_type, 1, Len(TONGUE_DATABASE[i].key))
                          = TONGUE_DATABASE[i].key}
    IN IF hits = {} THEN None
       ELSE TONGUE_DATABASE[CHOOSE i \in hits : \A j \in hits : i <= j]

\* TONGUE_DATABASE.get(tongue_type)
database_get(tongue_type) ==
    IF InDatabase(tongue_type)
    THEN TONGUE_DATABASE[CHOOSE i \in 1..Len(TONGUE_DATABASE) :
                            TONGUE_DATABASE[i].key = tongue_type]
    ELSE None

\* parts[0].strip()
parse_tongue_type(input_str) == Strip(Split(input_str, "|")[1])

\* [s.strip() for s in parts[1].split(",")] if len(parts) > 1 and parts[1] else []
parse_symptoms(input_str) ==
    LET parts == Split(input_str, "|")
    IN IF Len(parts) > 1 /\ parts[2] # <<>>
       THEN [i \in 1..Len(Split(parts[2], ",")) |-> Strip(Split(parts[2], ",")[i])]
       ELSE <<>>

\* the path the call takes
analysis_path(input_str) ==
    IF input_str = <<>> \/ (Find(input_str, "|") = 0 /\ ~InDatabase(input_str))
    THEN "format_error"
    ELSE IF database_get(parse_tongue_type(input_str)) = None
         THEN "unknown_type"
         ELSE "analysis"

\* matched with the test the other way round: a profile symptom within the user's
matched_symptoms_reversed(symptoms, expected) ==
    SelectSeq(symptoms, LAMBDA x : \E i \in 1..Len(expected) : PyIn(expected[i], x))

\* [s for s in symptoms if any(s in expected for expected in tongue_info["症狀"])]
matched_symptoms(symptoms, expected) ==
    SelectSeq(symptoms, LAMBDA x : \E i \in 1..Len(expected) : PyIn(x, expected[i]))

\* [s for s in symptoms if not any(s in expected for expected in tongue_info["症狀"])]
unmatched_symptoms(symptoms, expected) ==
    SelectSeq(symptoms, LAMBDA x : ~\E i \in 1..Len(expected) : PyIn(x, expected[i]))

\* the text returned: its kind, the usage example of the format error, the
\* description echoed by the unknown-type error, the bulleted list of types of
\* the two error texts, and the two symptom lists of an analysis
analysis_msg(input_str) ==
    LET tongue_type == parse_tongue_type(input_str)
        symptoms == parse_symptoms(input_str)
        tongue_info == database_get(tongue_type)
    IN CASE analysis_path(input_str) = "format_error" ->
              [NoMsg EXCEPT !.kind = "format_error",
                            !.example = <<KeyHongDian,
                                          KeyHongDian \o <<"|">> \o KouGan
                                              \o <<",">> \o ShiMian>>,
                            !.listed = available_types]
         [] analysis_path(input_str) = "unknown_type" ->
              [NoMsg EXCEPT !.kind = "unknown_type", !.tongue_type = tongue_type,
                            !.listed = available_types]
         [] OTHER ->
              [NoMsg EXCEPT !.kind = "analysis", !.tongue_type = tongue_type,
                            !.matched = matched_symptoms(symptoms, tongue_info.zhengzhuang),
                            !.unmatched = unmatched_symptoms(symptoms, tongue_info.zhengzhuang)]

enhanced_tongue_analysis(input_str, outcomes) ==
    IF analysis_path(input_str) # "analysis"
    THEN /\ last' = [NoCall EXCEPT !.op = "enhanced_tongue_analysis",
                                   !.user_id = current_user_id,
                                   !.input = input_str,
                                   !.msg = analysis_msg(input_str),
                                   !.pending = Pending]
         /\ UNCHANGED <<users, disk, now, uuids, current_user_id, api_key, httpLog, cache>>
    ELSE LET tongue_type == parse_tongue_type(input_str)
             record == NewRecord(uuids + 1, now, tongue_type,
                                 database_get(tongue_type).tizhi,
                                 parse_symptoms(input_str))
         IN /\ users' = add_tongue_record_users(users, current_user_id, record)
            /\ disk' = add_tongue_record_disk(disk, users, current_user_id, record, outcomes)
            /\ uuids' = uuids + 1
            /\ last' = [NoCall EXCEPT !.op = "enhanced_tongue_analysis",
                                      !.user_id = current_user_id,
                                      !.input = input_str,
                                      !.ret_id = record.record_id,
                                      !.saves = IF current_user_id \notin DOMAIN users
                                                THEN outcomes ELSE <<outcomes[2]>>,
                                      !.msg = analysis_msg(input_str),
                                      !.pending = Pending]
            /\ UNCHANGED <<now, current_user_id, api_key, httpLog, cache>>

KouGanSheZao == <<"kou", "gan", "she", "zao">>   \* 口乾舌燥
TouTong == <<"tou", "tong">>                     \* 頭痛

\* the texts the tool is given
AnalysisInputs ==
    { <<>>,
      KeyHongDian,
      KeyHuangHou,
      <<" ">> \o KeyHongDian,
      KeyHongDian \o <<"a">>,
      <<"x", "y">>,
      <<"x", "|">> \o KouGan,
      <<"|">> \o KouGan,
      KeyHongDian \o <<"a", "|">> \o KouGan,
      KeyHongDian \o <<"|">>,
      <<" ">> \o KeyHongDian \o <<" ", "|", " ">> \o KouGan \o <<",", " ">> \o ShiMian,
      KeyHongDian \o <<"|">> \o KouGanSheZao,
      KeyHongDian \o <<"|", "gan", ",">> \o KouGanSheZao,
      KeyHongDian \o <<"|">> \o KouGan \o <<",", ",">> \o TouTong,
      KeyHongDian \o <<"|">> \o FanZao \o <<"|">> \o TouTong,
      KeyChiHen \o <<"|", "fu", "zhang">> }

NextAnalysis ==
    \/ \E user_id_input \in {"", "u1"} : main(user_id_input, "ok")
    \/ \E input_str \in AnalysisInputs :
          /\ uuids < MaxAnalyses \/ analysis_path(input_str) # "analysis"
          /\ enhanced_tongue_analysis(input_str, <<"ok", "ok">>)

SpecAnalysis == Init /\ [][NextAnalysis]_vars

(***************************************************************************)
(* weather_constitution_advice.                                            *)
(***************************************************************************)
Tai == "tai"          \* 台
TaiTrad == "tai_trad" \* 臺

\* CITY_NAME_MAP, in the dict's order
CITY_NAME_MAP ==
    << << <<Tai, "bei">>, <<"Taipei">> >>,
       << <<TaiTrad, "bei">>, <<"Taipei">> >>,
       << <<"xin", "bei">>, <<"New", " ", "Taipei">> >>,
       << <<Tai, "zhong">>, <<"Taichung">> >>,
       << <<TaiTrad, "zhong">>, <<"Taichung">> >>,
       << <<Tai, "nan">>, <<"Tainan">> >>,
       << <<TaiTrad, "nan">>, <<"Tainan">> >>,
       << <<"gao", "xiong">>, <<"Kaohsiung">> >>,
       << <<"ji", "long">>, <<"Keelung">> >>,
       << <<"tao", "yuan">>, <<"Taoyuan">> >>,
       << <<"xin", "zhu">>, <<"Hsinchu">> >>,
       << <<"jia", "yi">>, <<"Chiayi">> >>,
       << <<"ping", "dong">>, <<"Pingtung">> >>,
       << <<"yi_", "lan">>, <<"Yilan">> >>,
       << <<"hua", "lian">>, <<"Hualien">> >>,
       << <<Tai, "dong">>, <<"Taitung">> >>,
       << <<TaiTrad, "dong">>, <<"Taitung">> >>,
       << <<"nan", "tou">>, <<"Nantou">> >>,
       << <<"zhang", "hua_">>, <<"Changhua">> >>,
       << <<"yun", "lin">>, <<"Yunlin">> >>,
       << <<"miao", "li">>, <<"Miaoli">> >>,
       << <<"peng", "hu">>, <<"Penghu">> >>,
       << <<"jin", "men">>, <<"Kinmen">> >>,
       << <<"lian_", "jiang">>, <<"Lienchiang">> >> >>

\* CITY_NAME_MAP.get(city.strip(), city.strip())
city_query(city) ==
    LET c == Strip(city)
        hits == {i \in 1..Len(CITY_NAME_MAP) : CITY_NAME_MAP[i][1] = c}
    IN IF hits = {} THEN c ELSE CITY_NAME_MAP[CHOOSE i \in hits : TRUE][2]

CacheMaxSize == 32
CodOk == 200
HumidityHigh == 75
TemperatureHot == 30
TemperatureCold == 15

\* functools.lru_cache: <<key, value>> pairs, the least recently used first
CacheHas(c, key) == \E i \in 1..Len(c) : c[i][1] = key

CacheGet(c, key) == c[CHOOSE i \in 1..Len(c) : c[i][1] = key][2]

\* the cache after a call with this key, whose value is v when it is a miss
CachePut(c, key, v) ==
    LET rest == SelectSeq(c, LAMBDA e : e[1] # key)
        entry == IF CacheHas(c, key) THEN <<key, CacheGet(c, key)>> ELSE <<key, v>>
        full == Append(rest, entry)
    IN IF Len(full) > CacheMaxSize THEN SubSeq(full, 2, Len(full)) ELSE full

\* the cache get_weather_cached starts a call with: the decorated function is
\* defined inside weather_constitution_advice, so every call makes a new one
closure_cache(c) == <<>>

\* what requests.get, raise_for_status and response.json can do with a request
ProviderOutcomes ==
    { [NoWeather EXCEPT !.kind = "network_error", !.text = "connection_timed_out"],
      [NoWeather EXCEPT !.kind = "http_error", !.status = 404,
                        !.text = "404_client_error_not_found", !.cod = 404,
                        !.message = "city_not_found"],
      [NoWeather EXCEPT !.kind = "json", !.status = 200, !.cod = 404,
                        !.message = "city_not_found"] }
    \cup { [NoWeather EXCEPT !.kind = "json", !.status = 200, !.cod = CodOk,
                             !.humidity = h, !.temp = t] :
             h \in {75, 76, 80}, t \in {14, 15, 30, 31, 32} }

\* the dict get_weather_cached returns on a miss
fetch(outcome) ==
    IF outcome.kind = "json"
    THEN [cod |-> outcome.cod, has_message |-> outcome.cod # CodOk,
          message |-> outcome.message, error |-> "",
          humidity |-> outcome.humidity, temp |-> outcome.temp]
    ELSE [cod |-> 0, has_message |-> FALSE, message |-> "", error |-> outcome.text,
          humidity |-> 0, temp |-> 0]

\* res.get('message', '未知錯誤')
error_text(res) == IF res.has_message THEN res.message ELSE "unknown_error"

\* a humidity test that takes the threshold itself as high
advice_blocks_inclusive(humidity, temperature, constitution) ==
    (IF humidity >= HumidityHigh
     THEN <<"dampness">>
             \o (IF constitution = "pixu_shizhong" THEN <<"spleen_dampness_clause">>
                 ELSE IF constitution = "shire_tizhi" THEN <<"damp_heat_clause">>
                 ELSE <<>>)
     ELSE <<>>)
    \o (IF temperature > TemperatureHot THEN <<"heat">>
        ELSE IF temperature < TemperatureCold THEN <<"cold">>
        ELSE <<>>)

\* the blocks the advice is composed of, after its header
advice_blocks(humidity, temperature, constitution) ==
    (IF humidity > HumidityHigh
     THEN <<"dampness">>
             \o (IF constitution = "pixu_shizhong" THEN <<"spleen_dampness_clause">>
                 ELSE IF constitution = "shire_tizhi" THEN <<"damp_heat_clause">>
                 ELSE <<>>)
     ELSE <<>>)
    \o (IF temperature > TemperatureHot THEN <<"heat">>
        ELSE IF temperature < TemperatureCold THEN <<"cold">>
        ELSE <<>>)

\* analysis.get("recent_constitution", "未知")
recent_constitution(us, user_id) ==
    IF get_constitution_analysis(us, user_id).kind = "analysis"
    THEN get_constitution_analysis(us, user_id).recent_constitution
    ELSE "unknown"

weather_constitution_advice(city, outcome) ==
    IF ~api_key
    THEN /\ last' = [NoCall EXCEPT !.op = "weather_constitution_advice",
                                   !.user_id = current_user_id, !.input = city,
                                   !.msg = [NoMsg EXCEPT !.kind = "no_key"]]
         /\ UNCHANGED <<users, disk, now, uuids, current_user_id, api_key, httpLog, cache>>
    ELSE LET q == city_query(city)
             c0 == closure_cache(cache)
             hit == CacheHas(c0, q)
             res == IF hit THEN CacheGet(c0, q) ELSE fetch(outcome)
             constitution == recent_constitution(users, current_user_id)
         IN /\ httpLog' = IF hit THEN httpLog ELSE Append(httpLog, q)
            /\ cache' = CachePut(c0, q, res)
            /\ last' = [NoCall EXCEPT
                          !.op = "weather_constitution_advice",
                          !.user_id = current_user_id, !.input = city,
                          !.hit = hit,
                          !.weather = IF hit THEN NoWeather ELSE outcome,
                          !.msg = IF res.cod # CodOk
                                  THEN [NoMsg EXCEPT !.kind = "weather_error",
                                                     !.text = error_text(res)]
                                  ELSE [NoMsg EXCEPT
                                          !.kind = "advice",
                                          !.constitution = constitution,
                                          !.blocks = advice_blocks(res.humidity, res.temp,
                                                                   constitution)]]
            /\ UNCHANGED <<users, disk, now, uuids, current_user_id, api_key>>

\* the city names the tool is given: 台北, 臺北, 台北 with blanks around, Atlantis
Cities ==
    { <<Tai, "bei">>, <<TaiTrad, "bei">>, <<" ", Tai, "bei", " ">>, <<"Atlantis">> }

InitWeather ==
    /\ users = <<>>
    /\ disk = Absent
    /\ now = 0
    /\ uuids = 0
    /\ current_user_id = "default_user"
    /\ api_key \in BOOLEAN
    /\ httpLog = <<>>
    /\ cache = <<>>
    /\ last = NoCall

NextWeather ==
    \/ \E input_str \in {KeyHongDian, KeyChiHen, KeyHuangHou} :
          /\ uuids < MaxAnalyses
          /\ enhanced_tongue_analysis(input_str, <<"ok", "ok">>)
    \/ \E city \in Cities, outcome \in ProviderOutcomes :
          /\ Len(httpLog) < MaxRequests
          /\ weather_constitution_advice(city, outcome)

SpecWeather == InitWeather /\ [][NextWeather]_vars

(***************************************************************************)
(* Properties of the store.                                                *)
(***************************************************************************)
Reverse(seq) == [i \in 1..Len(seq) |-> seq[Len(seq) + 1 - i]]

IsPrefix(a, b) == Len(a) <= Len(b) /\ SubSeq(b, 1, Len(a)) = a

Constitutions(records) == {records[i].constitution : i \in 1..Len(records)}

CountOf(records, c) == Cardinality({i \in 1..Len(records) : records[i].constitution = c})

\* the position of the oldest record carrying label c
FirstIndex(records, c) ==
    CHOOSE i \in 1..Len(records) :
        /\ records[i].constitution = c
        /\ \A j \in 1..(i - 1) : records[j].constitution # c

RECURSIVE SumCounts(_)
SumCounts(trends) ==
    IF trends = <<>> THEN 0
    ELSE trends[Len(trends)][2] + SumCounts(SubSeq(trends, 1, Len(trends) - 1))

\* C1: after N add_tongue_record calls for a user, get_user_history(id, N) is
\* those N records, the one appended last first and the one appended first
\* last, and get_constitution_analysis(id).total_records is N when N >= 1.
C1_HistoryNewestFirst ==
    \A u \in DOMAIN users :
        LET records == users[u].tongue_records
            N == Len(records)
        IN /\ get_user_history(users, u, N) = Reverse(records)
           /\ N >= 1 => get_constitution_analysis(users, u).total_records = N

\* C2: for every user with a record, constitution_frequency counts each label
\* as often as the user's records carry it and sums to total_records, and
\* most_common_constitution is a label of the largest count, the one whose
\* first record is oldest when several share it.
C2_FrequencyAndMostCommon ==
    \A u \in DOMAIN users :
        LET records == users[u].tongue_records
            a == get_constitution_analysis(users, u)
            freq == a.constitution_frequency
            mc == a.most_common_constitution
        IN records # <<>> =>
            /\ a.kind = "analysis"
            /\ SumCounts(freq) = a.total_records
            /\ {freq[i][1] : i \in 1..Len(freq)} = Constitutions(records)
            /\ \A i, j \in 1..Len(freq) : freq[i][1] = freq[j][1] => i = j
            /\ \A i \in 1..Len(freq) : freq[i][2] = CountOf(records, freq[i][1])
            /\ mc \in Constitutions(records)
            /\ \A c \in Constitutions(records) :
                  /\ CountOf(records, c) <= CountOf(records, mc)
                  /\ CountOf(records, c) = CountOf(records, mc)
                        => FirstIndex(records, mc) <= FirstIndex(records, c)

\* a user whose newest label ties with an older one for the largest count
C2_Witness ==
    \E u \in DOMAIN users :
        LET records == users[u].tongue_records
        IN /\ Len(records) >= 2
           /\ \E c \in Constitutions(records) :
                 /\ c # get_constitution_analysis(users, u).most_common_constitution
                 /\ CountOf(records, c) =
                       CountOf(records, get_constitution_analysis(users, u).most_common_constitution)

\* C3: create_user returns True for an id the store does not hold and False
\* for one it holds, and then leaves the users map and the file as they were
\* and saves nothing, whatever name, age and gender it is given.
C3_CreateUserIdempotent ==
    [][last'.op = "create_user" =>
          IF last'.user_id \in DOMAIN users
          THEN /\ last'.ret_ok = FALSE
               /\ users' = users
               /\ disk' = disk
               /\ last'.saves = <<>>
          ELSE /\ last'.ret_ok = TRUE
               /\ last'.user_id \in DOMAIN users'
               /\ users'[last'.user_id].created_at = now]_vars

\* create_user has returned False for a user who has a record and was created
\* earlier under another name
C3_Witness ==
    /\ last.op = "create_user"
    /\ last.ret_ok = FALSE
    /\ last.user_id \in DOMAIN users
    /\ users[last.user_id].name # last.profile[1]
    /\ users[last.user_id].created_at < now
    /\ users[last.user_id].tongue_records # <<>>

Mutating == {"create_user", "add_tongue_record", "main"}

\* C6: a create_user that returns True and an add_tongue_record attempt a write
\* of the whole users map; whatever the write does the call returns, the
\* mutation is in memory and get_user_history and get_constitution_analysis
\* show it; no call drops what memory held; a write that succeeds leaves the
\* file equal to the whole users map.
C6_WriteThrough ==
    /\ [](/\ (last.op \in {"create_user", "main"} /\ last.ret_ok) =>
                /\ Len(last.saves) = 1
                /\ last.user_id \in DOMAIN users
                /\ last.saves[1] = "ok" => disk = Document(users)
          /\ last.op = "add_tongue_record" =>
                /\ Len(last.saves) >= 1
                /\ last.user_id \in DOMAIN users
                /\ LET records == users[last.user_id].tongue_records
                   IN /\ records # <<>>
                      /\ records[Len(records)].record_id = last.ret_id
                      /\ \E i \in 1..Len(records) :
                            get_user_history(users, last.user_id, Len(records))[i].record_id
                                = last.ret_id
                      /\ get_constitution_analysis(users, last.user_id).total_records
                            = Len(records)
                /\ last.saves[Len(last.saves)] = "ok" => disk = Document(users))
    /\ [][last'.op \in Mutating =>
             \A u \in DOMAIN users :
                /\ u \in DOMAIN users'
                /\ IsPrefix(users[u].tongue_records, users'[u].tongue_records)]_vars

\* an add_tongue_record for a user whose earlier mutation had not reached the
\* file, and whose own write succeeded
C6_Witness ==
    /\ last.op = "add_tongue_record"
    /\ last.pending
    /\ last.saves = <<"ok">>
    /\ Len(users[last.user_id].tongue_records) >= 2
    /\ disk = Document(users)

\* C10: once a user is in the file, every later file holds that user and the
\* records the file held for it.
C10_NeverDeleted ==
    [][(disk.kind = "doc" /\ disk'.kind = "doc") =>
          \A u \in DOMAIN disk.users :
             /\ u \in DOMAIN disk'.users
             /\ IsPrefix(disk.users[u].tongue_records,
                         disk'.users[u].tongue_records)]_vars

(***************************************************************************)
(* Properties of enhanced_tongue_analysis.                                 *)
(***************************************************************************)
KeySet == {KeyHongDian, KeyJianCe, KeyChiHen, KeyGouHen, KeyHuangHou, KeyBaiHou, KeyDanHong}

Range(seq) == {seq[i] : i \in 1..Len(seq)}

\* a occurs within b
Occurs(a, b) == \E i, j \in 0..Len(b) : i <= j /\ SubSeq(b, i + 1, j) = a

\* the empty text, a text without "|" that is no key, or a text with "|" whose
\* stripped part before the first "|" is no key
Unrecognised(s) ==
    \/ s = <<>>
    \/ /\ "|" \notin Range(s)
       /\ s \notin KeySet
    \/ /\ "|" \in Range(s)
       /\ Strip(SubSeq(s, 1, Find(s, "|") - 1)) \notin KeySet

\* C4: on an unrecognised or malformed input enhanced_tongue_analysis returns a
\* text whose bulleted list holds every key of TONGUE_DATABASE exactly once,
\* and creates no user, appends no record, changes no counter and writes
\* nothing.
C4_MissListsKeysAndMutatesNothing ==
    [][(last'.op = "enhanced_tongue_analysis" /\ Unrecognised(last'.input)) =>
          /\ last'.msg.kind \in {"format_error", "unknown_type"}
          /\ \A k \in KeySet :
                Cardinality({i \in 1..Len(last'.msg.listed) : last'.msg.listed[i] = k}) = 1
          /\ users' = users
          /\ disk' = disk
          /\ uuids' = uuids
          /\ last'.saves = <<>>
          /\ last'.ret_id = 0]_vars

\* a text whose part before "|" only starts with a key was refused while the
\* store held a record of another user and none of the current user
C4_Witness ==
    /\ last.op = "enhanced_tongue_analysis"
    /\ last.input = KeyHongDian \o <<"a", "|">> \o KouGan
    /\ last.msg.kind = "unknown_type"
    /\ uuids >= 1
    /\ current_user_id \in DOMAIN users
    /\ users[current_user_id].tongue_records = <<>>

\* the symptoms of the analysis just recorded, and the profile's
LastSymptoms ==
    LET records == users[last.user_id].tongue_records
    IN records[Len(records)].symptoms

LastProfile ==
    (CHOOSE e \in Range(TONGUE_DATABASE) : e.key = last.msg.tongue_type).zhengzhuang

\* C5 as stated: a user symptom is matched exactly when some symptom of the
\* profile occurs within it, and is unmatched otherwise.
C5_ProfileWithinUserSymptom ==
    (last.op = "enhanced_tongue_analysis" /\ last.msg.kind = "analysis") =>
        \A s \in Range(LastSymptoms) :
            /\ s \in Range(last.msg.matched) <=> \E e \in Range(LastProfile) : Occurs(e, s)
            /\ s \in Range(last.msg.unmatched) <=> ~\E e \in Range(LastProfile) : Occurs(e, s)

\* C5 amended: a user symptom is matched exactly when it occurs within some
\* symptom of the profile, and is unmatched otherwise.
C5_UserSymptomWithinProfile ==
    (last.op = "enhanced_tongue_analysis" /\ last.msg.kind = "analysis") =>
        \A s \in Range(LastSymptoms) :
            /\ s \in Range(last.msg.matched) <=> \E e \in Range(LastProfile) : Occurs(s, e)
            /\ s \in Range(last.msg.unmatched) <=> ~\E e \in Range(LastProfile) : Occurs(s, e)

\* "gan" was matched as a part of "kou gan", "kou gan she zao" was not matched
C5_Witness ==
    /\ last.op = "enhanced_tongue_analysis"
    /\ last.msg.kind = "analysis"
    /\ last.msg.matched = << <<"gan">> >>
    /\ last.msg.unmatched = <<KouGanSheZao>>

(***************************************************************************)
(* Properties of weather_constitution_advice.                              *)
(***************************************************************************)
\* C7: with the credential present, a lookup that fails (no answer, or an
\* answer with a non-success HTTP status) costs one request and returns an
\* error text that carries the text of that failure.
C7_ErrorCarriesUpstreamText ==
    [][(last'.op = "weather_constitution_advice" /\ api_key
            /\ last'.weather.kind \in {"network_error", "http_error"}) =>
          /\ last'.msg.kind = "weather_error"
          /\ last'.msg.text \in {last'.weather.text, last'.weather.message} \ {""}
          /\ Len(httpLog') = Len(httpLog) + 1]_vars

\* C8: a city whose normalized name was asked before, with fewer than
\* CacheMaxSize other names asked since, is answered without a second request
\* to the provider.
C8_SecondCallFromCache ==
    \A i, j \in 1..Len(httpLog) :
        (i < j /\ httpLog[i] = httpLog[j]) =>
            Cardinality({httpLog[k] : k \in (i + 1)..(j - 1)} \ {httpLog[i]})
                >= CacheMaxSize

\* the constitution of the current user's newest record
NewestConstitution ==
    IF current_user_id \in DOMAIN users /\ users[current_user_id].tongue_records # <<>>
    THEN users[current_user_id].tongue_records[
             Len(users[current_user_id].tongue_records)].constitution
    ELSE "unknown"

\* C9: the advice for humidity h, temperature t and newest constitution c holds
\* the dampness block iff h > 75, the heat clause iff t > 30, the cold clause
\* iff t < 15, and the clause of c iff h > 75 and c is pixu_shizhong or
\* shire_tizhi.
C9_AdviceThresholds ==
    (last.op = "weather_constitution_advice" /\ last.msg.kind = "advice") =>
        LET h == last.weather.humidity
            t == last.weather.temp
            c == NewestConstitution
            blocks == Range(last.msg.blocks)
        IN /\ "dampness" \in blocks <=> h > 75
           /\ "heat" \in blocks <=> t > 30
           /\ "cold" \in blocks <=> t < 15
           /\ ~("heat" \in blocks /\ "cold" \in blocks)
           /\ "spleen_dampness_clause" \in blocks <=> (h > 75 /\ c = "pixu_shizhong")
           /\ "damp_heat_clause" \in blocks <=> (h > 75 /\ c = "shire_tizhi")
           /\ \A i, j \in 1..Len(last.msg.blocks) :
                 last.msg.blocks[i] = last.msg.blocks[j] => i = j

\* humidity 80, temperature 32, newest constitution shire_tizhi after an older
\* record of another constitution
C9_Witness ==
    /\ last.op = "weather_constitution_advice"
    /\ last.msg.kind = "advice"
    /\ last.weather.humidity = 80
    /\ last.weather.temp = 32
    /\ NewestConstitution = "shire_tizhi"
    /\ Len(users[current_user_id].tongue_records) = 2
    /\ users[current_user_id].tongue_records[1].constitution = "pixu_shizhong"
    /\ last.msg.blocks = <<"dampness", "damp_heat_clause", "heat">>

\* C11: for every user with a record, the record get_user_history(id, 1)
\* returns is the last record of the stored list, its constitution is
\* recent_constitution, and recent_trend is the constitutions of the
\* min(RecentWindow, N) newest history entries from oldest to newest, equal
\* timestamps included.
C11_MostRecentAgree ==
    \A u \in DOMAIN users :
        LET records == users[u].tongue_records
            N == Len(records)
            a == get_constitution_analysis(users, u)
            newest == get_user_history(users, u, IF N < RecentWindow THEN N ELSE RecentWindow)
        IN N >= 1 =>
            /\ get_user_history(users, u, 1) = <<records[N]>>
            /\ get_user_history(users, u, 1)[1].constitution = a.recent_constitution
            /\ a.recent_trend = Reverse([i \in 1..Len(newest) |-> newest[i].constitution])

====
